---- MODULE Spec2Model ----
(***************************************************************************)
(* A model of BrachioGraph (src/brachiograph.py): the Bonnet device        *)
(* interface, the Pen, the kinematics solver xy_to_angles, the motion      *)
(* interpolator xy, the path normaliser analyse_lines /                    *)
(* rotate_and_scale_lines and the drawing routines built on them.          *)
(*                                                                         *)
(* Numbers.  Python floats are modelled in fixed point: a coordinate c is  *)
(* the integer c * Scale, and a division rounds to the nearest integer     *)
(* (as a float division rounds to the nearest float).  Angles are whole    *)
(* degrees; cos is a table of cos(d) * 10000, d = 0..90, and acos / asin   *)
(* are the nearest-degree inverses of that table.  Comparisons that the    *)
(* code makes on real values (hypotenuse > INNER_ARM + OUTER_ARM,          *)
(* int(length * interpolate)) are decided exactly, on the squares.         *)
(*                                                                         *)
(* Exceptions.  Every object state carries a field exc: "" while the call  *)
(* runs normally, else the name of the exception that is propagating.      *)
(* Every operation is the identity on a state whose exc is set, which is   *)
(* how an uncaught Python exception skips the rest of the enclosing calls. *)
(*                                                                         *)
(* Not modelled: the durations of sleep (only the calls are counted, so    *)
(* the wait parameters are dropped), tqdm progress bars, readchar, and the *)
(* ServoKit library behind Bonnet (its angle is a plain stored value).     *)
(***************************************************************************)
EXTENDS Integers, Sequences, FiniteSets, TLC

\* Fixed-point resolution: one drawing unit is Scale model units.
Scale == 10

\* The number of calls made in one session of moves or of normaliser calls.
MaxOps == 2

\* The number of drawing routines called in one session.
MaxPlots == 1

\* Pen.__init__'s default pin: the pen's channel on the Bonnet.
pin == 2

\* None (and every empty sequence: `not bounds` holds of both).
None == <<>>

-----------------------------------------------------------------------------
(* Arithmetic                                                              *)

Abs(a) == IF a < 0 THEN -a ELSE a

\* a / b rounded to the nearest integer (b > 0), halves away from zero.
RoundDiv(a, b) ==
    IF a >= 0 THEN (2 * a + b) \div (2 * b)
              ELSE -((2 * (-a) + b) \div (2 * b))

\* lo * lo <= v < hi * hi: the integer part of the square root of v.
RECURSIVE SqrtSearch(_, _, _)
SqrtSearch(v, lo, hi) ==
    IF hi - lo <= 1 THEN lo
    ELSE LET mid == (lo + hi) \div 2
         IN  IF mid * mid <= v THEN SqrtSearch(v, mid, hi)
                               ELSE SqrtSearch(v, lo, mid)

\* int(math.sqrt(v)) for an integer v >= 0 (46341 * 46341 exceeds every v
\* the model's integers can hold).
FloorSqrt(v) == SqrtSearch(v, 0, IF v < 46341 THEN v + 1 ELSE 46341)

\* math.sqrt(v) rounded to the nearest model unit.
Sqrt(v) ==
    LET f == FloorSqrt(v)
    IN  IF v - f * f > f THEN f + 1 ELSE f

\* cos(d) * 10000 for d = 0..90 degrees.
CosTable ==
   << 10000, 9998, 9994, 9986, 9976, 9962, 9945, 9925, 9903, 9877, 9848, 9816, 9781,
      9744, 9703, 9659, 9613, 9563, 9511, 9455, 9397, 9336, 9272, 9205, 9135, 9063,
      8988, 8910, 8829, 8746, 8660, 8572, 8480, 8387, 8290, 8192, 8090, 7986, 7880,
      7771, 7660, 7547, 7431, 7314, 7193, 7071, 6947, 6820, 6691, 6561, 6428, 6293,
      6157, 6018, 5878, 5736, 5592, 5446, 5299, 5150, 5000, 4848, 4695, 4540, 4384,
      4226, 4067, 3907, 3746, 3584, 3420, 3256, 3090, 2924, 2756, 2588, 2419, 2250,
      2079, 1908, 1736, 1564, 1392, 1219, 1045, 872, 698, 523, 349, 175, 0 >>

\* cos(d) * 10000 for d = 0..180 degrees.
Cos(d) == IF d <= 90 THEN CosTable[d + 1] ELSE -CosTable[181 - d]

\* The least d in lo..hi with cos(d) <= num / den (cos decreases on 0..180).
RECURSIVE AcosSearch(_, _, _, _)
AcosSearch(num, den, lo, hi) ==
    IF lo >= hi THEN lo
    ELSE LET mid == (lo + hi) \div 2
         IN  IF Cos(mid) * den <= num * 10000
             THEN AcosSearch(num, den, lo, mid)
             ELSE AcosSearch(num, den, mid + 1, hi)

\* math.degrees(math.acos(num / den)) to the nearest degree, for
\* den > 0 and -den <= num <= den.
Acos(num, den) ==
    LET d == AcosSearch(num, den, 0, 180)
    IN  IF d > 0 /\ (Cos(d - 1) * den - num * 10000) <= (num * 10000 - Cos(d) * den)
        THEN d - 1 ELSE d

\* math.degrees(math.asin(num / den)) to the nearest degree.
Asin(num, den) == 90 - Acos(num, den)

-----------------------------------------------------------------------------
(* Bonnet: the device interface                                            *)

\* time.sleep: one more blocking delay.
sleep(s) == IF s.exc # "" THEN s ELSE [s EXCEPT !.sleeps = @ + 1]

\* Bonnet.set_angle(i, a): channel 0 carries the +120 mounting offset; the
\* value written to the servo is the value cached in last_angles.
set_angle(s, i, a) ==
    IF s.exc # "" THEN s
    ELSE LET raw == IF i = 0 THEN a + 120 ELSE a
         IN  [s EXCEPT !.servo[i + 1] = raw,
                       !.last_angles[i + 1] = raw,
                       !.log = Append(@, <<i, a>>)]

\* set_angles with the elbow commanded before the shoulder.
set_angles_elbow_first(s, a0, a1) == set_angle(set_angle(s, 1, a1), 0, a0)

\* Bonnet.set_angles(a0, a1), which BrachioGraph.set_angles forwards to.
set_angles(s, a0, a1) == set_angle(set_angle(s, 0, a0), 1, a1)

\* Bonnet.get_angles()
get_angles(s) == <<s.last_angles[1], s.last_angles[2]>>

-----------------------------------------------------------------------------
(* Pen                                                                     *)

\* Pen.down()
down(s) == sleep(set_angle(s, pin, s.angle_down))

\* Pen.up()
up(s) == sleep(set_angle(s, pin, s.angle_up))

\* Pen.__init__: up, down, up, each followed by a settling sleep.
Pen(s) == sleep(up(sleep(down(sleep(up(s))))))

-----------------------------------------------------------------------------
(* Kinematics solver                                                       *)

\* The reach test with the boundary itself refused.
out_of_reach_inclusive(v, reach) == v >= reach * reach

\* hypotenuse > self.INNER_ARM + self.OUTER_ARM, decided on the squares: v is
\* x^2 + y^2 and reach the sum of the arms.
out_of_reach(v, reach) == v > reach * reach

\* BrachioGraph.xy_to_angles(x, y): the exception raised ("" for none) and
\* the two motor angles in degrees.
xy_to_angles(s, x, y) ==
    LET I  == s.INNER_ARM * Scale
        O  == s.OUTER_ARM * Scale
        v  == x * x + y * y
        hypotenuse == Sqrt(v)
        inner_num == hypotenuse * hypotenuse + I * I - O * O
        inner_den == 2 * hypotenuse * I
        outer_num == I * I + O * O - hypotenuse * hypotenuse
        outer_den == 2 * I * O
        none == [exc |-> "", a1 |-> 0, a2 |-> 0]
    IN  IF out_of_reach(v, I + O)
            THEN [none EXCEPT !.exc = "Exception"]
        ELSE IF hypotenuse = 0
            THEN [none EXCEPT !.exc = "ZeroDivisionError"]
        ELSE IF Abs(inner_num) > inner_den \/ Abs(outer_num) > outer_den
            THEN [none EXCEPT !.exc = "ValueError"]
        ELSE [exc |-> "",
              a1  |-> Asin(x, hypotenuse) - Acos(inner_num, inner_den),
              a2  |-> 180 - Acos(outer_num, outer_den)]

-----------------------------------------------------------------------------
(* Motion interpolator                                                     *)

\* The step count with length * interpolate rounded to the nearest integer
\* instead of truncated.
no_of_steps_rounded(x_length, y_length, interpolate) ==
    LET n == (FloorSqrt(4 * (x_length * x_length + y_length * y_length)
                        * interpolate * interpolate) \div Scale + 1) \div 2
    IN  IF n = 0 THEN 1 ELSE n

\* int(length * interpolate) or 1, where length = sqrt(x_length^2 + y_length^2)
no_of_steps(x_length, y_length, interpolate) ==
    LET n == FloorSqrt((x_length * x_length + y_length * y_length)
                       * interpolate * interpolate) \div Scale
    IN  IF n = 0 THEN 1 ELSE n

\* One iteration of the interpolation loop of xy, n being no_of_steps:
\* advance the position, convert it, dispatch the angles, and sleep unless
\* this is the last step.
xy_step(s, step, n, length_of_step_x, length_of_step_y) ==
    IF s.exc # "" THEN s
    ELSE LET moved == [s EXCEPT !.current_x = @ + length_of_step_x,
                                !.current_y = @ + length_of_step_y]
             t == xy_to_angles(moved, moved.current_x, moved.current_y)
         IN  IF t.exc # "" THEN [moved EXCEPT !.exc = t.exc]
             ELSE LET sent == set_angles(moved, t.a1, t.a2)
                  IN  IF step + 1 < n THEN sleep(sent) ELSE sent

\* The iterations lo .. hi - 1 of the interpolation loop of xy, in order
\* (split in halves to keep the evaluation shallow).
RECURSIVE xy_loop(_, _, _, _, _, _)
xy_loop(s, lo, hi, n, length_of_step_x, length_of_step_y) ==
    IF lo >= hi \/ s.exc # "" THEN s
    ELSE IF hi - lo = 1 THEN xy_step(s, lo, n, length_of_step_x, length_of_step_y)
    ELSE LET mid == (lo + hi) \div 2
         IN  xy_loop(xy_loop(s, lo, mid, n, length_of_step_x, length_of_step_y),
                     mid, hi, n, length_of_step_x, length_of_step_y)

\* BrachioGraph.xy(x, y, wait, interpolate, draw); pen_down is its draw.
xy(s, x, y, interpolate, pen_down) ==
    IF s.exc # "" THEN s
    ELSE LET p == IF pen_down THEN down(s) ELSE up(s)
             t == xy_to_angles(p, x, y)
         IN  IF t.exc # "" THEN [p EXCEPT !.exc = t.exc]
             ELSE IF <<t.a1, t.a2>> = get_angles(p)
                 THEN [p EXCEPT !.current_x = x, !.current_y = y]
             ELSE LET x_length == x - p.current_x
                      y_length == y - p.current_y
                      n == no_of_steps(x_length, y_length, interpolate)
                  IN  sleep(xy_loop(p, 0, n, n, RoundDiv(x_length, n), RoundDiv(y_length, n)))

-----------------------------------------------------------------------------
(* Sequences of calls                                                      *)
(*                                                                         *)
(* A routine that only calls pen.up, pen.down, sleep, xy and draw in an    *)
(* order fixed by its arguments is modelled by the list of those calls,    *)
(* which `run` makes in order, an exception ending the run.                *)
(*   <<"up">>, <<"down">>, <<"sleep">>                                      *)
(*   <<"xy", x, y, interpolate, draw>>     self.xy(x, y, wait, interpolate, draw) *)
(*   <<"start", x, y, interpolate>>        the guarded xy of plot_lines    *)

\* round(v, 1)
Round1(v) == RoundDiv(v * 10, Scale)

\* One call of a list.  "start" is plot_lines's move to the first point of
\* a line, made only if the rounded positions differ.
do(s, c) ==
    IF s.exc # "" THEN s
    ELSE IF c[1] = "up" THEN up(s)
    ELSE IF c[1] = "down" THEN down(s)
    ELSE IF c[1] = "sleep" THEN sleep(s)
    ELSE IF c[1] = "start"
              /\ <<Round1(s.current_x), Round1(s.current_y)>> = <<Round1(c[2]), Round1(c[3])>>
         THEN s
    ELSE xy(s, c[2], c[3], c[4], IF c[1] = "xy" THEN c[5] ELSE FALSE)

\* The calls lo .. hi - 1 of a list, in order (split in halves to keep the
\* evaluation shallow).
RECURSIVE run_from(_, _, _, _)
run_from(s, calls, lo, hi) ==
    IF lo >= hi \/ s.exc # "" THEN s
    ELSE IF hi - lo = 1 THEN do(s, calls[lo])
    ELSE LET mid == (lo + hi) \div 2
         IN  run_from(run_from(s, calls, lo, mid), calls, mid, hi)

run(s, calls) == run_from(s, calls, 1, Len(calls) + 1)

\* draw with the pen left up.
draw_pen_up(x, y, interpolate) == << <<"xy", x, y, interpolate, FALSE>> >>

\* BrachioGraph.draw(x, y, wait, interpolate): xy with draw=True.
draw(x, y, interpolate) == << <<"xy", x, y, interpolate, TRUE>> >>

\* BrachioGraph.park(): pen up, xy to the rest position with the defaults
\* of xy (interpolate=10, draw=False), sleep(1).
park(s) == << <<"up">>, <<"xy", -s.INNER_ARM * Scale, s.OUTER_ARM * Scale, 10, FALSE>>, <<"sleep">> >>

-----------------------------------------------------------------------------
(* Path normaliser                                                         *)

\* The least and the greatest member of a non-empty set of integers.
Min(S) == CHOOSE m \in S : \A e \in S : m <= e
Max(S) == CHOOSE m \in S : \A e \in S : m >= e

\* All the points of all the lines of a drawing.
PointsOf(lns) == UNION { { lns[l][k] : k \in 1..Len(lns[l]) } : l \in 1..Len(lns) }

\* max(a / b, c / d) as a fraction <<numerator, denominator>>, b, d > 0.
MaxRatio(a, b, c, d) == IF a * d >= c * b THEN <<a, b>> ELSE <<c, d>>

\* BrachioGraph.analyse_lines(lines, rotate, bounds), bounds in drawing
\* units.  zip(*line) of an empty line and min() of no values raise
\* ValueError; a zero box range raises ZeroDivisionError.  The divider is
\* kept as a fraction.
analyse_lines(lns, bnds) ==
    LET xs == { p[1] : p \in PointsOf(lns) }
        ys == { p[2] : p \in PointsOf(lns) }
        x_range == Max(xs) - Min(xs)
        y_range == Max(ys) - Min(ys)
        box_x_range == (bnds[3] - bnds[1]) * Scale
        box_y_range == (bnds[4] - bnds[2]) * Scale
        x_mid_point == RoundDiv(Max(xs) + Min(xs), 2)
        y_mid_point == RoundDiv(Max(ys) + Min(ys), 2)
        box_x_mid_point == RoundDiv((bnds[1] + bnds[3]) * Scale, 2)
        box_y_mid_point == RoundDiv((bnds[2] + bnds[4]) * Scale, 2)
        same == \/ (x_range >= y_range /\ box_x_range >= box_y_range)
                \/ (x_range <= y_range /\ box_x_range <= box_y_range)
        failed(e) == [exc |-> e, rotate |-> FALSE, x_mid_point |-> 0, y_mid_point |-> 0,
                      box_x_mid_point |-> 0, box_y_mid_point |-> 0, divider |-> <<0, 1>>]
    IN  IF (\E l \in 1..Len(lns) : Len(lns[l]) = 0) \/ Len(lns) = 0
            THEN failed("ValueError")
        ELSE IF box_x_range = 0 \/ box_y_range = 0
            THEN failed("ZeroDivisionError")
        ELSE IF same
            THEN [exc |-> "", rotate |-> FALSE,
                  x_mid_point |-> x_mid_point, y_mid_point |-> y_mid_point,
                  box_x_mid_point |-> box_x_mid_point, box_y_mid_point |-> box_y_mid_point,
                  divider |-> MaxRatio(x_range, box_x_range, y_range, box_y_range)]
        ELSE [exc |-> "", rotate |-> TRUE,
              x_mid_point |-> y_mid_point, y_mid_point |-> x_mid_point,
              box_x_mid_point |-> box_x_mid_point, box_y_mid_point |-> box_y_mid_point,
              divider |-> MaxRatio(x_range, box_y_range, y_range, box_x_range)]

\* One pass of the inner loop of rotate_and_scale_lines over a point, the
\* divider not being zero.
scale_point(point, a, flip) ==
    LET p == IF a.rotate THEN <<point[2], point[1]>> ELSE point
        x == RoundDiv((p[1] - a.x_mid_point) * a.divider[2], a.divider[1])
                + a.box_x_mid_point
        y == RoundDiv((p[2] - a.y_mid_point) * a.divider[2], a.divider[1])
                + a.box_y_mid_point
    IN  <<IF flip # a.rotate THEN -x ELSE x, y>>

\* BrachioGraph.rotate_and_scale_lines(lines, rotate, flip, bounds): the
\* exception raised ("" for none) and the drawing as the call leaves it.
\* With a zero divider the first point is swapped, if rotate, before
\* x / divider raises.
rotate_and_scale_lines(lns, flip, bnds) ==
    LET a == analyse_lines(lns, bnds)
    IN  IF a.exc # "" THEN [exc |-> a.exc, lines |-> lns]
        ELSE IF a.divider[1] = 0
            THEN [exc |-> "ZeroDivisionError",
                  lines |-> IF a.rotate
                            THEN [lns EXCEPT ![1][1] = <<@[2], @[1]>>]
                            ELSE lns]
        ELSE [exc |-> "",
              lines |-> [l \in 1..Len(lns) |->
                           [k \in 1..Len(lns[l]) |-> scale_point(lns[l][k], a, flip)]]]

-----------------------------------------------------------------------------
(* Drawing routines                                                        *)

\* BrachioGraph.draw_line(start, end, wait, interpolate, both)
draw_line(start, end, interpolate, both) ==
    << <<"up">>, <<"xy", start[1], start[2], interpolate, FALSE>>, <<"down">> >>
    \o draw(end[1], end[2], interpolate)
    \o (IF both THEN draw(start[1], start[2], interpolate) ELSE << >>)
    \o << <<"up">> >>

\* The body of the loop of plot_lines for one line: the guarded move to
\* its first point, then a draw to each further point (from point k on).
RECURSIVE plot_points(_, _, _)
plot_points(line, k, interpolate) ==
    IF k > Len(line) THEN << >>
    ELSE draw(line[k][1], line[k][2], interpolate) \o plot_points(line, k + 1, interpolate)

plot_line(line, interpolate) ==
    << <<"start", line[1][1], line[1][2], interpolate>> >> \o plot_points(line, 2, interpolate)

\* The loop of plot_lines over the lines, from line l on.
RECURSIVE plot_each(_, _, _)
plot_each(lns, l, interpolate) ==
    IF l > Len(lns) THEN << >>
    ELSE plot_line(lns[l], interpolate) \o plot_each(lns, l + 1, interpolate)

\* BrachioGraph.plot_lines(lines, wait, interpolate, rotate, flip, bounds):
\* the object, the drawing and the value returned.  rotate and flip are
\* not read: rotate_and_scale_lines is called with flip=True.
plot_lines(s, lns, interpolate, bnds) ==
    LET b == IF bnds # None THEN bnds ELSE s.bounds
        r == rotate_and_scale_lines(lns, TRUE, b)
    IN  IF b = None
            THEN [bg |-> s, lines |-> lns,
                  result |-> "Line plotting is only possible when BrachioGraph.bounds is set."]
        ELSE IF r.exc # ""
            THEN [bg |-> [s EXCEPT !.exc = r.exc], lines |-> r.lines, result |-> "None"]
        ELSE [bg |-> run(s, plot_each(r.lines, 1, interpolate) \o park(s)),
              lines |-> r.lines, result |-> "None"]

\* BrachioGraph.plot_file(filename, wait, interpolate, bounds), lns being
\* what json.load reads from the file.
plot_file(s, lns, interpolate, bnds) ==
    LET b == IF bnds # None THEN bnds ELSE s.bounds
    IN  IF b = None
            THEN [bg |-> s, lines |-> lns,
                  result |-> "File plotting is only possible when BrachioGraph.bounds is set."]
        ELSE [plot_lines(s, lns, interpolate, b) EXCEPT !.result = "None"]

\* The loop of test_pattern over y in range(bounds[1], bounds[3], 2), from y on.
RECURSIVE test_rows(_, _, _)
test_rows(b, y, interpolate) ==
    IF y >= b[4] THEN << >>
    ELSE << <<"xy", b[1] * Scale, y * Scale, interpolate, FALSE>> >>
         \o draw(b[3] * Scale, y * Scale, interpolate)
         \o << <<"xy", b[3] * Scale, (y + 1) * Scale, interpolate, FALSE>> >>
         \o draw(b[1] * Scale, (y + 1) * Scale, interpolate)
         \o test_rows(b, y + 2, interpolate)

\* A list of calls made r times over: a loop over range(repeat).
RECURSIVE repeated(_, _)
repeated(calls, r) == IF r <= 0 THEN << >> ELSE calls \o repeated(calls, r - 1)

\* BrachioGraph.test_pattern(bounds, wait, interpolate, repeat)
test_pattern(s, bnds, interpolate, repeat) ==
    LET b == IF bnds # None THEN bnds ELSE s.bounds
    IN  IF b = None
            THEN [bg |-> s,
                  result |-> "Plotting a test pattern is only possible when BrachioGraph.bounds is set."]
        ELSE [bg |-> run(s, repeated(test_rows(b, b[2], interpolate), repeat) \o park(s)),
              result |-> "None"]

\* The while loops of vertical_lines and horizontal_lines: a line at each
\* position v <= last, dv apart, from (v, a) to (v, b) if vertical, else
\* from (a, v) to (b, v).
RECURSIVE ruled_lines(_, _, _, _, _, _, _, _)
ruled_lines(v, dv, last, a, b, vertical, interpolate, both) ==
    IF v > last THEN << >>
    ELSE LET start == IF vertical THEN <<v, a>> ELSE <<a, v>>
             end   == IF vertical THEN <<v, b>> ELSE <<b, v>>
         IN  draw_line(start, end, interpolate, both)
             \o ruled_lines(v + dv, dv, last, a, b, vertical, interpolate, both)

\* BrachioGraph.vertical_lines(bounds, lines, wait, interpolate, repeat,
\* reverse, both).  After the check of `bounds or self.bounds` every read
\* is of self.bounds, and subscripting None raises TypeError.
vertical_lines(s, bnds, n_lines, interpolate, reverse, both) ==
    LET b == IF bnds # None THEN bnds ELSE s.bounds
        sb == s.bounds
        top_y    == (IF ~reverse THEN sb[2] ELSE sb[4]) * Scale
        bottom_y == (IF ~reverse THEN sb[4] ELSE sb[2]) * Scale
        step == RoundDiv((sb[3] - sb[1]) * Scale, n_lines)
    IN  IF b = None
            THEN [bg |-> s,
                  result |-> "Plotting a test pattern is only possible when BrachioGraph.bounds is set."]
        ELSE IF sb = None
            THEN [bg |-> [s EXCEPT !.exc = "TypeError"], result |-> "None"]
        ELSE [bg |-> run(s, ruled_lines(sb[1] * Scale, step, sb[3] * Scale,
                                        top_y, bottom_y, TRUE, interpolate, both)
                            \o park(s)),
              result |-> "None"]

\* BrachioGraph.horizontal_lines(bounds, lines, wait, interpolate, repeat,
\* reverse, both), which reads self.bounds in the same way.
horizontal_lines(s, bnds, n_lines, interpolate, reverse, both) ==
    LET b == IF bnds # None THEN bnds ELSE s.bounds
        sb == s.bounds
        min_x == (IF ~reverse THEN sb[1] ELSE sb[3]) * Scale
        max_x == (IF ~reverse THEN sb[3] ELSE sb[1]) * Scale
        step == RoundDiv((sb[4] - sb[2]) * Scale, n_lines)
    IN  IF b = None
            THEN [bg |-> s,
                  result |-> "Plotting a test pattern is only possible when BrachioGraph.bounds is set."]
        ELSE IF sb = None
            THEN [bg |-> [s EXCEPT !.exc = "TypeError"], result |-> "None"]
        ELSE [bg |-> run(s, ruled_lines(sb[2] * Scale, step, sb[4] * Scale,
                                        min_x, max_x, FALSE, interpolate, both)
                            \o park(s)),
              result |-> "None"]

\* BrachioGraph.grid_lines(...): vertical_lines, then horizontal_lines;
\* what they return is dropped.
grid_lines(s, bnds, n_lines, interpolate, reverse, both) ==
    LET v == vertical_lines(s, bnds, n_lines, interpolate, reverse, both).bg
    IN  IF v.exc # "" THEN [bg |-> v, result |-> "None"]
        ELSE [bg |-> horizontal_lines(v, bnds, n_lines, interpolate, reverse, both).bg,
              result |-> "None"]

\* The four sides drawn by one iteration of the loop of box.
box_sides(b, interpolate, reverse) ==
    LET c1 == IF ~reverse THEN <<b[3], b[2]>> ELSE <<b[1], b[4]>>
        c3 == IF ~reverse THEN <<b[1], b[4]>> ELSE <<b[3], b[2]>>
    IN  draw(c1[1] * Scale, c1[2] * Scale, interpolate)
        \o draw(b[3] * Scale, b[4] * Scale, interpolate)
        \o draw(c3[1] * Scale, c3[2] * Scale, interpolate)
        \o draw(b[1] * Scale, b[2] * Scale, interpolate)

\* BrachioGraph.box(bounds, wait, interpolate, repeat, reverse)
box(s, bnds, interpolate, repeat, reverse) ==
    LET b == IF bnds # None THEN bnds ELSE s.bounds
    IN  IF b = None
            THEN [bg |-> s,
                  result |-> "Box drawing is only possible when BrachioGraph.bounds is set."]
        ELSE [bg |-> run(s, << <<"xy", b[1] * Scale, b[2] * Scale, interpolate, FALSE>> >>
                            \o repeated(box_sides(b, interpolate, reverse), repeat)
                            \o park(s)),
              result |-> "None"]

-----------------------------------------------------------------------------
(* Construction                                                            *)

\* Bonnet.__init__: last_angles = [0, 0, 0]; the servos hold no commanded
\* angle yet (0 stands for it; __init__ commands all three before use).
Bonnet ==
    [last_angles |-> <<0, 0, 0>>, servo |-> <<0, 0, 0>>, log |-> <<>>]

\* BrachioGraph.__init__(inner_arm, outer_arm, bounds, angle_up, angle_down)
BrachioGraph(inner_arm, outer_arm, bnds, a_up, a_down) ==
    LET rpi == Bonnet
        s0 == [INNER_ARM |-> inner_arm, OUTER_ARM |-> outer_arm, bounds |-> bnds,
               angle_up |-> a_up, angle_down |-> a_down,
               current_x |-> 0, current_y |-> 0,
               last_angles |-> rpi.last_angles, servo |-> rpi.servo,
               log |-> rpi.log, sleeps |-> 0, exc |-> ""]
        s1 == sleep(set_angle(s0, 0, -90))
        s2 == sleep(set_angle(s1, 1, 90))
        s3 == Pen(s2)
    IN  [s3 EXCEPT !.current_x = -inner_arm * Scale,
                   !.current_y = outer_arm * Scale]

-----------------------------------------------------------------------------
(* State                                                                   *)

VARIABLES
    bg,      \* the BrachioGraph object with its Bonnet and Pen; log and sleeps
             \* are the set_angle calls and the sleeps of the latest call,
             \* exc the exception it ended with ("" for none)
    result,  \* what the latest call returned: "None" or a refusal message
    lines,   \* the drawing object handed to the latest call, as it is now
    call,    \* the latest call: its name, arguments and the state before it
    ops      \* the number of calls made so far

vars == <<bg, result, lines, call, ops>>

\* The plotters built: bg.py's (arms 8 and 8, bounds (-8, 4, 8, 13), pen
\* angles 10 and 0), and two with no bounds and the default pen angles of
\* __init__, one of them with unequal arms.  <<inner_arm, outer_arm, bounds, angle_up, angle_down>>
Constructions ==
    { <<8, 8, <<-8, 4, 8, 13>>, 10, 0>>,
      <<8, 8, None, 0, 10>>,
      <<8, 6, None, 0, 10>> }

\* interpolate
Interpolates == {1, 3}

\* The targets of a move, for arm lengths inner and outer: the rest
\* position, a point one and a half units from it (rounded up to a model
\* unit), two points on either side of the origin, a point at full reach
\* and one a model unit beyond it.
Targets(inner, outer) ==
    { <<-inner * Scale, outer * Scale>>,
      <<-inner * Scale, outer * Scale - (3 * Scale + 1) \div 2>>,
      <<-4 * Scale, 0>>, <<4 * Scale, 0>>,
      <<0, (inner + outer) * Scale>>,
      <<0, (inner + outer) * Scale + 1>> }

\* The object as a new call finds it: nothing logged, no exception.
Entering(s) == [s EXCEPT !.log = <<>>, !.sleeps = 0, !.exc = ""]

\* What a call is remembered by: its name and arguments, and the position
\* and the cached angles it started from.
Call(name, args) ==
    [name |-> name, args |-> args,
     from_x |-> bg.current_x, from_y |-> bg.current_y,
     from_angles |-> get_angles(bg)]

Init ==
    /\ \E c \in Constructions : bg = BrachioGraph(c[1], c[2], c[3], c[4], c[5])
    /\ result = "None"
    /\ lines = <<>>
    /\ call = [name |-> "__init__"]
    /\ ops = 0

\* bg.xy(x, y, interpolate=i, draw=d)
XY ==
    /\ ops < MaxOps
    /\ \E t \in Targets(bg.INNER_ARM, bg.OUTER_ARM), i \in Interpolates, d \in BOOLEAN :
          /\ bg' = xy(Entering(bg), t[1], t[2], i, d)
          /\ call' = Call("xy", [x |-> t[1], y |-> t[2], interpolate |-> i, draw |-> d])
    /\ result' = "None"
    /\ ops' = ops + 1
    /\ UNCHANGED lines

\* The angles handed to set_angles: (-90, 90) is where __init__ leaves the
\* arms, (-120, 0) the pair bg.py suggests.
ShoulderAngles == {-120, -90, -45, 0, 30}
ElbowAngles == {0, 45, 90, 120}

\* bg.set_angles(angle_1=a0, angle_2=a1)
SetAngles ==
    /\ ops < MaxOps
    /\ \E a0 \in ShoulderAngles, a1 \in ElbowAngles :
          /\ bg' = set_angles(Entering(bg), a0, a1)
          /\ call' = Call("set_angles", [angle_1 |-> a0, angle_2 |-> a1])
    /\ result' = "None"
    /\ ops' = ops + 1
    /\ UNCHANGED lines

\* The bounds handed to a drawing routine: none, bg.py's, a rectangle to
\* the right of x = 0, and one of no width.
BoundsArgs == {None, <<-8, 4, 8, 13>>, <<0, 4, 8, 13>>, <<2, 4, 2, 13>>}

\* The drawings handed to the normaliser, in drawing units: a landscape
\* one of two lines, one whose second line starts where its first ends, a
\* portrait one, one whose points coincide, one with no lines, and one
\* whose only line has no points.
Drawings ==
    { << << <<0, 0>>, <<10, 2>> >>, << <<10, 0>>, <<4, 1>> >> >>,
      << << <<16, 0>>, <<16, 9>> >>, << <<16, 9>>, <<0, 9>> >> >>,
      << << <<0, 0>>, <<2, 10>>, <<1, 5>> >> >>,
      << << <<3, 3>>, <<3, 3>> >> >>,
      << >>,
      << << >> >> }

\* What the files handed to plot_file hold: the landscape drawing, or no lines.
FileDrawings ==
    { << << <<0, 0>>, <<10, 2>> >>, << <<10, 0>>, <<4, 1>> >> >>,
      << >> }

\* A drawing in model units.
Scaled(d) == [l \in 1..Len(d) |-> [k \in 1..Len(d[l]) |-> <<d[l][k][1] * Scale, d[l][k][2] * Scale>>]]

\* bg.rotate_and_scale_lines(lines=d, flip=f, bounds=b)
RotateAndScaleLines ==
    /\ ops < MaxOps
    /\ \E d \in Drawings, b \in BoundsArgs \ {None}, f \in BOOLEAN :
          LET r == rotate_and_scale_lines(Scaled(d), f, b)
          IN  /\ bg' = [Entering(bg) EXCEPT !.exc = r.exc]
              /\ lines' = r.lines
              /\ call' = Call("rotate_and_scale_lines",
                              [lines |-> Scaled(d), flip |-> f, bounds |-> b])
    /\ result' = "None"
    /\ ops' = ops + 1

\* bg.plot_lines(lines=d, interpolate=i, bounds=b)
PlotLines ==
    /\ ops < MaxPlots
    /\ \E d \in Drawings, b \in BoundsArgs, i \in {1} :
          LET r == plot_lines(Entering(bg), Scaled(d), i, b)
          IN  /\ bg' = r.bg
              /\ lines' = r.lines
              /\ result' = r.result
              /\ call' = Call("plot_lines",
                              [lines |-> Scaled(d), interpolate |-> i, bounds |-> b])
    /\ ops' = ops + 1

\* bg.plot_file(filename, interpolate=i, bounds=b), the file holding d
PlotFile ==
    /\ ops < MaxPlots
    /\ \E d \in FileDrawings, b \in {None, <<-8, 4, 8, 13>>}, i \in {1} :
          LET r == plot_file(Entering(bg), Scaled(d), i, b)
          IN  /\ bg' = r.bg
              /\ lines' = r.lines
              /\ result' = r.result
              /\ call' = Call("plot_file",
                              [lines |-> Scaled(d), interpolate |-> i, bounds |-> b])
    /\ ops' = ops + 1

\* bg.test_pattern(bounds=b, interpolate=i, repeat=r)
TestPattern ==
    /\ ops < MaxPlots
    /\ \E b \in {None, <<-8, 4, 8, 13>>}, i \in {1}, r \in {1, 2} :
          LET o == test_pattern(Entering(bg), b, i, r)
          IN  /\ bg' = o.bg
              /\ result' = o.result
              /\ call' = Call("test_pattern", [bounds |-> b, interpolate |-> i, repeat |-> r])
    /\ ops' = ops + 1
    /\ UNCHANGED lines

\* bg.vertical_lines(bounds=b, lines=n, interpolate=i, reverse=r, both=t)
VerticalLines ==
    /\ ops < MaxPlots
    /\ \E b \in {None, <<-8, 4, 8, 13>>}, n \in {2}, i \in {1}, r \in {FALSE}, t \in BOOLEAN :
          LET o == vertical_lines(Entering(bg), b, n, i, r, t)
          IN  /\ bg' = o.bg
              /\ result' = o.result
              /\ call' = Call("vertical_lines",
                              [bounds |-> b, lines |-> n, interpolate |-> i,
                               reverse |-> r, both |-> t])
    /\ ops' = ops + 1
    /\ UNCHANGED lines

\* bg.horizontal_lines(bounds=b, lines=n, interpolate=i, reverse=r, both=t)
HorizontalLines ==
    /\ ops < MaxPlots
    /\ \E b \in {None, <<-8, 4, 8, 13>>}, n \in {2}, i \in {1}, r \in BOOLEAN, t \in {FALSE} :
          LET o == horizontal_lines(Entering(bg), b, n, i, r, t)
          IN  /\ bg' = o.bg
              /\ result' = o.result
              /\ call' = Call("horizontal_lines",
                              [bounds |-> b, lines |-> n, interpolate |-> i,
                               reverse |-> r, both |-> t])
    /\ ops' = ops + 1
    /\ UNCHANGED lines

\* bg.grid_lines(bounds=b, lines=n, interpolate=i, reverse=r, both=t)
GridLines ==
    /\ ops < MaxPlots
    /\ \E b \in {None, <<-8, 4, 8, 13>>}, n \in {2}, i \in {1}, r \in {FALSE}, t \in BOOLEAN :
          LET o == grid_lines(Entering(bg), b, n, i, r, t)
          IN  /\ bg' = o.bg
              /\ result' = o.result
              /\ call' = Call("grid_lines",
                              [bounds |-> b, lines |-> n, interpolate |-> i,
                               reverse |-> r, both |-> t])
    /\ ops' = ops + 1
    /\ UNCHANGED lines

\* bg.box(bounds=b, interpolate=i, repeat=r, reverse=v)
Box ==
    /\ ops < MaxPlots
    /\ \E b \in {None, <<-8, 4, 8, 13>>}, i \in {1}, r \in {1}, v \in BOOLEAN :
          LET o == box(Entering(bg), b, i, r, v)
          IN  /\ bg' = o.bg
              /\ result' = o.result
              /\ call' = Call("box", [bounds |-> b, interpolate |-> i, repeat |-> r,
                                      reverse |-> v])
    /\ ops' = ops + 1
    /\ UNCHANGED lines

\* The drawing routines.
Plot ==
    \/ PlotLines
    \/ PlotFile
    \/ TestPattern
    \/ VerticalLines
    \/ HorizontalLines
    \/ GridLines
    \/ Box

Next == XY \/ SetAngles \/ RotateAndScaleLines \/ Plot

Spec == Init /\ [][Next]_vars

\* Sessions of moves alone.
MoveSpec == Init /\ [][XY]_vars

\* Sessions of direct commands to the device interface alone.
DeviceSpec == Init /\ [][SetAngles]_vars

\* Calls of the normaliser alone.
NormSpec == Init /\ [][RotateAndScaleLines]_vars

\* Sessions of drawing routines alone.
PlotSpec == Init /\ [][Plot]_vars

-----------------------------------------------------------------------------
(* Properties                                                              *)

\* The set_angle calls of a log on the channels chs, in order.
OnChannels(log, chs) == SelectSeq(log, LAMBDA e : e[1] \in chs)

\* The joint-angle commands (shoulder and elbow) and the pen commands of a log.
JointCommands(log) == OnChannels(log, {0, 1})
PenCommands(log) == OnChannels(log, {pin})

\* The latest call was an xy.
IsMove == call.name = "xy"

\* What xy_to_angles makes of the target of the latest xy.
Solved == xy_to_angles(bg, call.args.x, call.args.y)

\* The latest xy went into the interpolation loop: its target was accepted
\* and its angles were not the cached ones.
Looped == IsMove /\ Solved.exc = "" /\ <<Solved.a1, Solved.a2>> # call.from_angles

\* The number of set_angles dispatches of the latest call.
Dispatches == Len(OnChannels(bg.log, {0}))

\* (distance * interpolate * Scale) squared, for the latest xy: distance is
\* from where the move started to its target.
Effort ==
    LET x_length == call.args.x - call.from_x
        y_length == call.args.y - call.from_y
    IN  (x_length * x_length + y_length * y_length)
            * call.args.interpolate * call.args.interpolate

\* C1 (move elision): an xy whose target is the exact current position
\* issues no set_angle call on any channel and makes no sleep before it
\* returns.
C1_MoveElision ==
    (IsMove /\ call.args.x = call.from_x /\ call.args.y = call.from_y)
        => (bg.exc = "" /\ bg.log = <<>> /\ bg.sleeps = 0)

\* C2 (final position): whenever xy returns normally, current_x and
\* current_y are exactly the target it was given.
C2_FinalPositionIsTarget ==
    (IsMove /\ bg.exc = "")
        => (bg.current_x = call.args.x /\ bg.current_y = call.args.y)

\* C3 (failed move): whenever xy ends by an exception raised from
\* xy_to_angles, current_x and current_y are what they were before the call.
C3_FailedMoveKeepsPosition ==
    (IsMove /\ bg.exc # "")
        => (bg.current_x = call.from_x /\ bg.current_y = call.from_y)

\* C5 (read-back): after set_angles(a0, a1), get_angles() is (a0, a1), the
\* mounting offset of channel 0 touching only the value sent to the servo.
C5_ReadBack ==
    call.name = "set_angles"
        => get_angles(bg) = <<call.args.angle_1, call.args.angle_2>>

\* The latest call was of the normaliser.
IsNormalise == call.name = "rotate_and_scale_lines"

\* C4 (normalisation fit): after rotate_and_scale_lines of a non-degenerate
\* drawing into bounds with min_x < max_x and min_y < max_y, with either
\* flip, every point has min_x <= x <= max_x and min_y <= y <= max_y (to
\* within one model unit of rounding).
C4_NormalisationFit ==
    (IsNormalise /\ bg.exc = "")
        => \A p \in PointsOf(lines) :
              /\ call.args.bounds[1] * Scale - 1 <= p[1]
              /\ p[1] <= call.args.bounds[3] * Scale + 1
              /\ call.args.bounds[2] * Scale - 1 <= p[2]
              /\ p[2] <= call.args.bounds[4] * Scale + 1

\* The drawing routines that need a rectangle.
BoundingOperations ==
    {"plot_file", "plot_lines", "test_pattern", "vertical_lines",
     "horizontal_lines", "grid_lines", "box"}

\* C6 (missing bounds): a drawing routine called on a plotter with no
\* rectangle configured refuses when it is given no bounds argument
\* (no exception, no set_angle call, position unchanged), and when it is
\* given one it proceeds with it and does not end in the TypeError of
\* subscripting the missing rectangle.
C6_MissingBoundsRefused ==
    (call.name \in BoundingOperations /\ bg.bounds = None)
        => /\ bg.exc # "TypeError"
           /\ call.args.bounds = None
                 => /\ bg.exc = ""
                    /\ bg.log = <<>>
                    /\ bg.current_x = call.from_x
                    /\ bg.current_y = call.from_y

\* The input of the latest normaliser call is degenerate: no lines, a line
\* of no points, points that all coincide, or bounds of no width or height.
Degenerate ==
    \/ call.args.lines = <<>>
    \/ \E l \in 1..Len(call.args.lines) : call.args.lines[l] = <<>>
    \/ Cardinality(PointsOf(call.args.lines)) = 1
    \/ call.args.bounds[1] = call.args.bounds[3]
    \/ call.args.bounds[2] = call.args.bounds[4]

\* C7 (degenerate input): a normaliser call on a degenerate input is
\* rejected without reaching a division by zero and without changing any
\* point of the drawing.
C7_DegenerateRejected ==
    (IsNormalise /\ Degenerate)
        => /\ bg.exc \notin {"", "ZeroDivisionError"}
           /\ lines = call.args.lines

\* round(distance * interpolate) for the latest xy, as Python rounds (a
\* half goes to the even neighbour).
RoundedEffort ==
    LET twice == FloorSqrt(4 * Effort) \div Scale
        k == twice \div 2
    IN  IF twice % 2 = 0 THEN k
        ELSE IF 4 * Effort = (2 * k + 1) * (2 * k + 1) * Scale * Scale /\ k % 2 = 0 THEN k
        ELSE k + 1

\* C8 as the specification states it (step count): a non-elided move that
\* completes dispatches max(1, round(distance * interpolate)) set_angles.
C8_StepCountRounded ==
    (Looped /\ bg.exc = "")
        => Dispatches = (IF RoundedEffort = 0 THEN 1 ELSE RoundedEffort)

\* C8 as the code has it (step count): a non-elided move plans
\* max(1, floor(distance * interpolate)) steps; it dispatches exactly that
\* many set_angles when it returns normally, and fewer when a step raises.
C8_StepCountTruncated ==
    Looped =>
        LET d == Dispatches
        IN  IF bg.exc = ""
            THEN /\ d >= 1
                 /\ d = 1 \/ d * d * Scale * Scale <= Effort
                 /\ Effort < (d + 1) * (d + 1) * Scale * Scale
            ELSE d = 0 \/ (d + 1) * (d + 1) * Scale * Scale <= Effort

\* C8's case: a completed move with 1.5 <= distance * interpolate < 2,
\* made in one step.
C8_Witness ==
    /\ Looped /\ bg.exc = ""
    /\ 9 * Scale * Scale <= 4 * Effort
    /\ Effort < 4 * Scale * Scale
    /\ Dispatches = 1

\* The square of the distance of the latest xy's target from the origin,
\* and of the sum of the arms.
TargetSquared == call.args.x * call.args.x + call.args.y * call.args.y
ReachSquared ==
    (bg.INNER_ARM + bg.OUTER_ARM) * Scale * (bg.INNER_ARM + bg.OUTER_ARM) * Scale

\* C9 as the specification states it (reachability boundary): the target
\* of an xy is refused as unreachable exactly when it is farther than the
\* sum of the arms, and the refused move has issued no actuator command.
C9_UnreachableNoCommand ==
    IsMove =>
        /\ (Solved.exc = "Exception") <=> (TargetSquared > ReachSquared)
        /\ Solved.exc = "Exception" => (bg.exc = "Exception" /\ bg.log = <<>>)

\* C9 as the code has it (reachability boundary): the target of an xy is
\* refused as unreachable exactly when it is farther than the sum of the
\* arms, a target at exactly that distance being accepted; the refused move
\* ends with the unreachable-target exception, has commanded the pen once
\* and neither joint, and has not changed the position.
C9_UnreachableBoundary ==
    IsMove =>
        /\ (Solved.exc = "Exception") <=> (TargetSquared > ReachSquared)
        /\ Solved.exc = "Exception"
              => /\ bg.exc = "Exception"
                 /\ JointCommands(bg.log) = <<>>
                 /\ Len(PenCommands(bg.log)) = 1
                 /\ bg.current_x = call.from_x
                 /\ bg.current_y = call.from_y

\* C9's case: a move to a target at exactly full reach, which completes.
C9_Witness ==
    /\ IsMove
    /\ TargetSquared = ReachSquared
    /\ bg.exc = ""
    /\ Dispatches >= 1

\* A second case of C9: a target beyond full reach, refused with the pen
\* already commanded.
C9_BeyondReach ==
    /\ IsMove
    /\ TargetSquared > ReachSquared
    /\ bg.exc = "Exception"
    /\ Len(bg.log) = 1

\* The angles xy dispatches at its step-th step (counted from 1): those of
\* the start advanced by step step lengths.
StepAngles(step) ==
    LET x_length == call.args.x - call.from_x
        y_length == call.args.y - call.from_y
        n == no_of_steps(x_length, y_length, call.args.interpolate)
        t == xy_to_angles(bg, call.from_x + step * RoundDiv(x_length, n),
                              call.from_y + step * RoundDiv(y_length, n))
    IN  <<t.a1, t.a2>>

\* C10 (pen sequencing): the first command of an xy is its one pen command,
\* angle_down if draw and angle_up if not; every later command is a joint
\* command, the shoulder's then the elbow's for each step, step after step.
C10_PenThenJoints ==
    IsMove =>
        /\ Len(bg.log) >= 1
        /\ bg.log[1] = <<pin, IF call.args.draw THEN bg.angle_down ELSE bg.angle_up>>
        /\ Len(PenCommands(bg.log)) = 1
        /\ Len(bg.log) = 1 + 2 * Dispatches
        /\ \A k \in 1..Dispatches :
              /\ bg.log[2 * k][1] = 0
              /\ bg.log[2 * k + 1][1] = 1
              /\ <<bg.log[2 * k][2], bg.log[2 * k + 1][2]>> = StepAngles(k)

\* C10's case: a drawing move of several steps that completes.
C10_Witness ==
    /\ Looped /\ bg.exc = ""
    /\ call.args.draw
    /\ Dispatches >= 2

\* The bounds the latest drawing routine went by, and what the normaliser
\* makes of the drawing it was given.
PlotBounds == IF call.args.bounds # None THEN call.args.bounds ELSE bg.bounds
PlotNormalised == rotate_and_scale_lines(call.args.lines, TRUE, PlotBounds)

\* The latest call was a plot_lines that had bounds and a drawing the
\* normaliser accepted, so that it went on to move the arms.
IsPlotting ==
    /\ call.name = "plot_lines"
    /\ PlotBounds # None
    /\ PlotNormalised.exc = ""

\* Every point of the normalised drawing is one xy_to_angles accepts.
AllReachable == \A p \in PointsOf(lines) : xy_to_angles(bg, p[1], p[2]).exc = ""

\* The object as the latest call found it, as far as moves read it.
Before ==
    [Entering(bg) EXCEPT !.current_x = call.from_x,
                         !.current_y = call.from_y,
                         !.last_angles = <<call.from_angles[1], call.from_angles[2], @[3]>>,
                         !.servo = <<call.from_angles[1], call.from_angles[2], @[3]>>]

\* The points of a drawing in the order given, each marked as the first
\* of its line or not: <<x, y, first>>.
VisitsIn(line) == [k \in 1..Len(line) |-> <<line[k][1], line[k][2], k = 1>>]
RECURSIVE VisitsFrom(_, _)
VisitsFrom(lns, l) ==
    IF l > Len(lns) THEN << >> ELSE VisitsIn(lns[l]) \o VisitsFrom(lns, l + 1)

\* One visit: to the first point of a line with the pen up, unless the
\* position is already there to one decimal place; to any other point
\* with the pen down.
Visit(s, v, interpolate) ==
    IF s.exc # "" THEN s
    ELSE IF v[3] /\ <<Round1(s.current_x), Round1(s.current_y)>> = <<Round1(v[1]), Round1(v[2])>>
        THEN s
    ELSE xy(s, v[1], v[2], interpolate, ~v[3])

\* The states a walk through the visits v passes, from the k-th visit on,
\* acc being those passed so far.
RECURSIVE Trail(_, _, _, _)
Trail(acc, v, k, interpolate) ==
    IF k > Len(v) THEN acc
    ELSE Trail(Append(acc, Visit(acc[Len(acc)], v[k], interpolate)), v, k + 1, interpolate)

\* The angle of the latest pen command before the j-th entry of a log
\* (-1 if there is none).
PenBefore(log, j) ==
    LET ks == {i \in 1..(j - 1) : log[i][1] = pin}
    IN  IF ks = {} THEN -1 ELSE log[Max(ks)][2]

\* C11 (pen discipline of plot_lines): plot_lines visits the points of the
\* normalised drawing in the order given and then goes to the rest
\* position with the pen up; every joint command of the way to the first
\* point of a line follows a pen-up command, every joint command of the way
\* to a later point follows a pen-down command; and when plot_lines
\* returns, its last pen command was up.
C11_PenDiscipline ==
    (IsPlotting /\ AllReachable) =>
        LET v == VisitsFrom(lines, 1)
            trail == Trail(<<Before>>, v, 1, call.args.interpolate)
            walked == trail[Len(trail)]
            parked == sleep(xy(up(walked), -bg.INNER_ARM * Scale, bg.OUTER_ARM * Scale,
                               10, FALSE))
            pens == PenCommands(bg.log)
        IN  /\ lines = PlotNormalised.lines
            /\ bg.log = parked.log
            /\ bg.exc = parked.exc
            /\ bg.sleeps = parked.sleeps
            /\ <<bg.current_x, bg.current_y>> = <<parked.current_x, parked.current_y>>
            /\ \A k \in 1..Len(v) :
                  \A j \in (Len(trail[k].log) + 1)..Len(trail[k + 1].log) :
                      bg.log[j][1] \in {0, 1}
                          => PenBefore(bg.log, j) = (IF v[k][3] THEN bg.angle_up
                                                              ELSE bg.angle_down)
            /\ \A j \in (Len(walked.log) + 1)..Len(bg.log) :
                  bg.log[j][1] \in {0, 1} => PenBefore(bg.log, j) = bg.angle_up
            /\ bg.exc = "" => (pens # << >> /\ pens[Len(pens)][2] = bg.angle_up)

\* C11's case: a plot_lines of a drawing of two lines, all points
\* reachable, that returns, having moved the arms with the pen up and with
\* the pen down.
C11_Witness ==
    /\ IsPlotting /\ AllReachable
    /\ bg.exc = ""
    /\ Len(lines) >= 2
    /\ \E j \in 1..Len(bg.log) :
          bg.log[j][1] \in {0, 1} /\ PenBefore(bg.log, j) = bg.angle_down
    /\ \E j \in 1..Len(bg.log) :
          bg.log[j][1] \in {0, 1} /\ PenBefore(bg.log, j) = bg.angle_up

====
